---- MODULE Spec2Model ----
(***************************************************************************)
(* Model of the srs-enb-ue charm (src/src/charm.py, utils.py,              *)
(* linux_service.py, linux_interface.py).                                  *)
(*                                                                         *)
(* Every event handler of SrsLteCharm is one action.  A handler is a       *)
(* straight-line composition of steps over a machine record `m` that       *)
(* carries the mutable world (unit status, unit files, systemd, network,   *)
(* peer databag), the log of shell commands issued in the handler and the  *)
(* pending Python exception.  Once an exception is raised every later      *)
(* step is skipped, so the effects made before it stay, as in Python.      *)
(*                                                                         *)
(* Python values: an Optional[str] is a sequence of length <= 1 (None is   *)
(* <<>>); a command is the list of tokens the code builds before           *)
(* " ".join, each token <<name>> or <<name, value>> for "name=value".      *)
(***************************************************************************)
EXTENDS Naturals, Sequences, FiniteSets, TLC

VARIABLES
    status,     \* self.unit.status: [kind, msg], msg the list of message parts
    unitFile,   \* /etc/systemd/system/<name>.service: Optional command
    loaded,     \* systemd's in-memory unit as of the last daemon-reload
    proc,       \* the command line the service's process runs; None: inactive
    enabled,    \* services enabled at boot
    peerRel,    \* the peer relation "replicas" exists
    databag,    \* replicas app databag, key mme_ipv4_address: JSON text or <<>>
    leader,     \* self.unit.is_leader()
    config,     \* self.config
    net,        \* netifaces: default route and interface addresses
    installed,  \* the install hook has completed
    last,       \* record of the last handler run
    inflight    \* the handler that is between two of its commands, if any

vars == <<status, unitFile, loaded, proc, enabled, peerRel, databag, leader,
          config, net, installed, last, inflight>>

-----------------------------------------------------------------------------
(* Python values *)

None == <<>>
Some(x) == <<x>>
Truthy(o) == o # None /\ o[1] # ""
\* f"{o}": None formats as the text None
Format(o) == IF o = None THEN "None" ELSE o[1]

-----------------------------------------------------------------------------
(* Constants of charm.py *)

SRS_ENB_SERVICE == "srsenb"
SRS_UE_SERVICE == "srsue"
SRS_ENB_BINARY == "/build/srsenb/src/srsenb"
SRS_UE_BINARY == "/build/srsue/src/srsue"
Services == {SRS_ENB_SERVICE, SRS_UE_SERVICE}
TUN_SRSUE == "tun_srsue"
ETH0 == "eth0"

(* Input domains *)
MmeAddrs == {"1.2.3.4", "5.6.7.8"}
BindAddrs == {None, Some(""), Some("10.0.0.8")}
EnbNames == {"dummyENB01"}
EthAddr == "192.168.2.122"
TunAddr == "192.168.128.13"
\* event.params of attach-ue: three strings, possibly empty
Creds == {[imsi |-> Some("whatever-imsi"), k |-> Some("whatever-k"), opc |-> Some("whatever-opc")],
          [imsi |-> Some("whatever-imsi"), k |-> Some(""), opc |-> Some("")],
          [imsi |-> Some(""), k |-> Some("whatever-k"), opc |-> Some("whatever-opc")]}
Configs == [bind_address : BindAddrs, enb_name : EnbNames]

NoTun == [exists |-> FALSE, inet |-> None]

NoExc == "none"
Raised(m) == m.exc # NoExc
Raise(m, e) == IF Raised(m) THEN m ELSE [m EXCEPT !.exc = e]

ActiveIn(m, name) == m.proc[name] # None
Active(name) == proc[name] # None

-----------------------------------------------------------------------------
(* The operating system: what a shell command does and answers.            *)
(* cmd is the command's word list; the answer is m.resp = [rc, stdout].    *)

\* the unit systemd acts on: the loaded one, else loaded lazily from disk
UnitOf(m, name) == IF m.loaded[name] # None THEN m.loaded[name] ELSE m.unitFile[name]

Answer(m, rc, out) == [m EXCEPT !.resp = [rc |-> rc, stdout |-> out]]

\* the post-stop command of the unit of `name`: the srsue unit carries
\* ExecStopPost=service srsenb restart
ExecStopPost(name) ==
    IF name = SRS_UE_SERVICE THEN Some(<<"service", SRS_ENB_SERVICE, "restart">>) ELSE None

\* systemd runs the post-stop command of a service that was running and has
\* stopped; `service srsenb restart` (re)starts srsenb when its unit exists
PostStop(m, name) ==
    IF ~ActiveIn(m, name) \/ ExecStopPost(name) = None
       \/ UnitOf(m, SRS_ENB_SERVICE) = None
    THEN m
    ELSE [m EXCEPT !.proc[SRS_ENB_SERVICE] = UnitOf(m, SRS_ENB_SERVICE),
                   !.loaded[SRS_ENB_SERVICE] = UnitOf(m, SRS_ENB_SERVICE)]

Systemctl(m, action, name) ==
    CASE action = "is-active" ->
           IF ActiveIn(m, name) THEN Answer(m, 0, "active\n")
                                ELSE Answer(m, 3, "inactive\n")
      [] action \in {"start", "restart"} ->
           IF UnitOf(m, name) = None THEN Answer(m, 5, "")
           ELSE Answer([(IF action = "restart" THEN PostStop(m, name) ELSE m)
                            EXCEPT !.proc[name] = UnitOf(m, name),
                                   !.loaded[name] = UnitOf(m, name),
                                   !.net.ifs[TUN_SRSUE] =
                                       IF name = SRS_UE_SERVICE THEN m.env.tun ELSE @],
                       0, "")
      [] action = "stop" ->
           IF UnitOf(m, name) = None THEN Answer(m, 5, "")
           ELSE Answer([PostStop(m, name)
                            EXCEPT !.proc[name] = None,
                                   !.loaded[name] = UnitOf(m, name),
                                   !.net.ifs[TUN_SRSUE] =
                                       IF name = SRS_UE_SERVICE
                                       THEN NoTun ELSE @],
                       0, "")
      [] action = "enable" ->
           IF UnitOf(m, name) = None THEN Answer(m, 1, "")
           ELSE Answer([m EXCEPT !.enabled = @ \cup {name}], 0, "")
      [] OTHER -> Answer(m, 1, "")

Execute(m, cmd) ==
    CASE cmd[1] = "systemctl" /\ Len(cmd) = 3 -> Systemctl(m, cmd[2], cmd[3])
      [] cmd = <<"systemctl", "daemon-reload">> ->
           Answer([m EXCEPT !.loaded = m.unitFile], 0, "")
      [] cmd = <<"route", "del", "default">> ->
           IF m.net.default = None THEN Answer(m, 7, "")
           ELSE Answer([m EXCEPT !.net.default = None], 0, "")
      [] OTHER -> Answer(m, 0, "")

-----------------------------------------------------------------------------
(* Sequencing: Then(x, F) evaluates x once and continues with F on its     *)
(* value (Python's statement order).                                       *)

Then(x, F(_)) == CHOOSE y \in {F(v) : v \in {x}} : TRUE

-----------------------------------------------------------------------------
(* utils.py *)

\* a command that can fail for a reason outside the machine's state (network,
\* disk, the service manager); `systemctl is-active` only reads that state
Fallible(cmd) == ~(Len(cmd) = 3 /\ cmd[2] = "is-active")

\* subprocess.run(command, shell=True, ...): the k-th command of a handler
\* fails without effect when the environment says so (m.env.failAt = k);
\* m.calls and m.rcs log the commands run and their exit codes
subprocess_run(m, cmd) ==
    Then([m EXCEPT !.calls = Append(@, cmd), !.trace = Append(@, cmd)], LAMBDA logged :
    Then(IF m.env.failAt = Len(logged.calls) /\ Fallible(cmd)
         THEN Answer(logged, 1, "")
         ELSE Execute(logged, cmd), LAMBDA done :
         [done EXCEPT !.rcs = Append(@, done.resp.rc)]))

\* mutant: the exit status of the command is not checked
shell_unchecked(m, cmd) ==
    IF Raised(m) THEN m
    ELSE Then(subprocess_run(m, cmd), LAMBDA r : [r EXCEPT !.ret = r.resp.stdout])

shell(m, cmd) ==
    IF Raised(m) THEN m
    ELSE Then(subprocess_run(m, cmd), LAMBDA r :
              IF r.resp.rc # 0 THEN Raise(r, "CalledProcessError")
              ELSE [r EXCEPT !.ret = r.resp.stdout])

\* mutant: a failing `systemctl is-active` answered False
service_active_tolerant(m, name) ==
    IF Raised(m) THEN m
    ELSE Then(shell(m, <<"systemctl", "is-active", name>>), LAMBDA r :
              IF Raised(r) THEN [r EXCEPT !.exc = NoExc, !.ret = FALSE]
              ELSE [r EXCEPT !.ret = (r.ret = "active\n")])

service_active(m, name) ==
    Then(shell(m, <<"systemctl", "is-active", name>>), LAMBDA r :
         IF Raised(r) THEN r ELSE [r EXCEPT !.ret = (r.ret = "active\n")])

systemctl(m, action, name) == shell(m, <<"systemctl", action, name>>)
service_start(m, name) == systemctl(m, "start", name)
service_restart(m, name) == systemctl(m, "restart", name)
service_stop(m, name) == systemctl(m, "stop", name)
service_enable(m, name) == systemctl(m, "enable", name)
systemctl_daemon_reload(m) == shell(m, <<"systemctl", "daemon-reload">>)

\* netifaces.ifaddresses(iface)[AF_INET][0]["addr"], None when it is empty
get_iface_ip_address(m, iface) ==
    IF Raised(m) THEN m
    ELSE IF ~m.net.ifs[iface].exists THEN Raise(m, "ValueError")
    ELSE IF m.net.ifs[iface].inet = None THEN Raise(m, "KeyError")
    ELSE [m EXCEPT !.ret = IF Truthy(m.net.ifs[iface].inet)
                           THEN m.net.ifs[iface].inet ELSE None]

ip_from_default_iface(m) ==
    IF Raised(m) THEN m
    ELSE IF m.net.default = None THEN [m EXCEPT !.ret = None]
    ELSE IF ~m.net.ifs[m.net.default[1]].exists THEN Raise(m, "ValueError")
    ELSE [m EXCEPT !.ret = m.net.ifs[m.net.default[1]].inet]

install_apt_packages(m) ==
    Then(shell(m, <<"sudo", "apt", "-qq", "update">>), LAMBDA a :
         shell(a, <<"sudo", "apt", "-y", "install">>))

git_clone(m) == shell(m, <<"git", "clone">>)

\* shutil.copy of the five example configuration files
copy_files(m) == IF Raised(m) THEN m ELSE [m EXCEPT !.trace = Append(@, <<"copy_files">>)]

-----------------------------------------------------------------------------
(* json: the text of a dumped string is its quoted form *)

json_dumps(s) == <<"\"", s, "\"">>
json_loads(text) == IF text = <<"null">> THEN None ELSE Some(text[2])

-----------------------------------------------------------------------------
(* charm.py: properties and command builders *)

mme_addr(m) ==
    IF ~peerRel THEN None
    ELSE IF m.databag # <<>> THEN json_loads(m.databag) ELSE None

\* mutant: the default interface is consulted first, the configuration second
bind_address_default_first(m) ==
    Then(ip_from_default_iface(m), LAMBDA d :
         IF Raised(d) THEN d
         ELSE IF Truthy(d.ret) THEN d
         ELSE [d EXCEPT !.ret = m.config.bind_address])

bind_address(m) ==
    IF Raised(m) THEN m
    ELSE IF Truthy(m.config.bind_address) THEN [m EXCEPT !.ret = m.config.bind_address]
    ELSE ip_from_default_iface(m)

\* mutant: --enb.mme_addr emitted whether or not the address is known
srsenb_command_mme_always(m) ==
    Then(bind_address(m), LAMBDA gtp :
    Then(bind_address(gtp), LAMBDA s1c :
         IF Raised(s1c) THEN s1c
         ELSE [s1c EXCEPT !.ret =
                 << <<SRS_ENB_BINARY>>,
                    <<"--enb.mme_addr", Format(mme_addr(m))>>,
                    <<"--enb.gtp_bind_addr", Format(gtp.ret)>>,
                    <<"--enb.s1c_bind_addr", Format(s1c.ret)>>,
                    <<"--enb.name", m.config.enb_name>>,
                    <<"--enb.mcc", "001">>,
                    <<"--enb.mnc", "01">>,
                    <<"--enb_files.rr_config", "/config/rr.conf">>,
                    <<"--enb_files.sib_config", "/config/sib.conf">>,
                    <<"--enb_files.drb_config", "/config/drb.conf">>,
                    <<"--rf.device_name", "zmq">>,
                    <<"--rf.device_args", "args">> >>]))

\* mutant: the command of the unit file on disk is reused when there is one
srsenb_command_cached(m) ==
    IF Raised(m) THEN m
    ELSE IF m.unitFile[SRS_ENB_SERVICE] # None
         THEN [m EXCEPT !.ret = m.unitFile[SRS_ENB_SERVICE][1]]
    ELSE Then(bind_address(m), LAMBDA gtp :
         Then(bind_address(gtp), LAMBDA s1c :
              IF Raised(s1c) THEN s1c
              ELSE [s1c EXCEPT !.ret =
                      << <<SRS_ENB_BINARY>> >>
                      \o (IF Truthy(mme_addr(m))
                          THEN << <<"--enb.mme_addr", Format(mme_addr(m))>> >> ELSE <<>>)
                      \o << <<"--enb.gtp_bind_addr", Format(gtp.ret)>>,
                            <<"--enb.s1c_bind_addr", Format(s1c.ret)>>,
                            <<"--enb.name", m.config.enb_name>>,
                            <<"--enb.mcc", "001">>,
                            <<"--enb.mnc", "01">>,
                            <<"--enb_files.rr_config", "/config/rr.conf">>,
                            <<"--enb_files.sib_config", "/config/sib.conf">>,
                            <<"--enb_files.drb_config", "/config/drb.conf">>,
                            <<"--rf.device_name", "zmq">>,
                            <<"--rf.device_args", "args">> >>]))

\* mutant: --enb.mme_addr appended after the other flags
srsenb_command_mme_last(m) ==
    Then(bind_address(m), LAMBDA gtp :
    Then(bind_address(gtp), LAMBDA s1c :
         IF Raised(s1c) THEN s1c
         ELSE [s1c EXCEPT !.ret =
                 << <<SRS_ENB_BINARY>>,
                    <<"--enb.gtp_bind_addr", Format(gtp.ret)>>,
                    <<"--enb.s1c_bind_addr", Format(s1c.ret)>>,
                    <<"--enb.name", m.config.enb_name>>,
                    <<"--enb.mcc", "001">>,
                    <<"--enb.mnc", "01">>,
                    <<"--enb_files.rr_config", "/config/rr.conf">>,
                    <<"--enb_files.sib_config", "/config/sib.conf">>,
                    <<"--enb_files.drb_config", "/config/drb.conf">>,
                    <<"--rf.device_name", "zmq">>,
                    <<"--rf.device_args", "args">> >>
                 \o (IF Truthy(mme_addr(m))
                     THEN << <<"--enb.mme_addr", Format(mme_addr(m))>> >> ELSE <<>>)]))

get_srsenb_command(m) ==
    Then(bind_address(m), LAMBDA gtp :
    Then(bind_address(gtp), LAMBDA s1c :
         IF Raised(s1c) THEN s1c
         ELSE [s1c EXCEPT !.ret =
                 << <<SRS_ENB_BINARY>> >>
                 \o (IF Truthy(mme_addr(m))
                     THEN << <<"--enb.mme_addr", Format(mme_addr(m))>> >> ELSE <<>>)
                 \o << <<"--enb.gtp_bind_addr", Format(gtp.ret)>>,
                       <<"--enb.s1c_bind_addr", Format(s1c.ret)>> >>
                 \o << <<"--enb.name", m.config.enb_name>>,
                       <<"--enb.mcc", "001">>,
                       <<"--enb.mnc", "01">>,
                       <<"--enb_files.rr_config", "/config/rr.conf">>,
                       <<"--enb_files.sib_config", "/config/sib.conf">>,
                       <<"--enb_files.drb_config", "/config/drb.conf">>,
                       <<"--rf.device_name", "zmq">>,
                       <<"--rf.device_args", "args">> >>]))

get_srsue_command(ue_usim_imsi, ue_usim_k, ue_usim_opc) ==
    << <<SRS_UE_BINARY>> >>
    \o (IF Truthy(ue_usim_imsi)
        THEN << <<"--usim.imsi", Format(ue_usim_imsi)>>,
                <<"--usim.k", Format(ue_usim_k)>>,
                <<"--usim.opc", Format(ue_usim_opc)>> >>
        ELSE <<>>)
    \o << <<"--usim.algo", "milenage">>,
          <<"--nas.apn", "oai.ipv4">>,
          <<"--rf.device_name", "zmq">>,
          <<"--rf.device_args", "args">>,
          <<"/config/ue.conf">> >>

\* mutant: the unit file opened for appending
configure_service_append(m, command, name) ==
    IF Raised(m) THEN m
    ELSE systemctl_daemon_reload(
             [m EXCEPT !.unitFile[name] = IF @ = None THEN Some(command)
                                          ELSE Some(@[1] \o command),
                       !.trace = Append(@, <<"write", name>>)])

\* open(template, "r") and open(path, "w"): either can fail, before anything
\* is written
open_files(m) ==
    IF Raised(m) THEN m
    ELSE IF m.env.io = "template" THEN Raise(m, "FileNotFoundError")
    ELSE IF m.env.io = "destination" THEN Raise(m, "PermissionError")
    ELSE m

\* mutant: the unit file written without a daemon-reload
configure_service_no_reload(m, command, name) ==
    IF Raised(open_files(m)) THEN open_files(m)
    ELSE [m EXCEPT !.unitFile[name] = Some(command),
                   !.trace = Append(@, <<"write", name>>)]

\* mutant: the service restarted by the converge itself
configure_service_and_restart(m, command, name) ==
    IF Raised(open_files(m)) THEN open_files(m)
    ELSE Then(systemctl_daemon_reload([m EXCEPT !.unitFile[name] = Some(command),
                                                !.trace = Append(@, <<"write", name>>)]),
              LAMBDA r : service_restart(r, name))

\* mutant: the destination truncated before the template is opened
configure_service_truncating(m, command, name) ==
    IF Raised(m) THEN m
    ELSE IF Raised(open_files(m))
         THEN [open_files(m) EXCEPT !.unitFile[name] = Some(<<>>)]
    ELSE systemctl_daemon_reload([m EXCEPT !.unitFile[name] = Some(command),
                                           !.trace = Append(@, <<"write", name>>)])

\* open(template), render, open(path, "w"), write, daemon-reload
configure_service(m, command, name) ==
    IF Raised(open_files(m)) THEN open_files(m)
    ELSE systemctl_daemon_reload([m EXCEPT !.unitFile[name] = Some(command),
                                           !.trace = Append(@, <<"write", name>>)])

configure_srsenb_service(m) ==
    Then(get_srsenb_command(m), LAMBDA c :
         IF Raised(c) THEN c ELSE configure_service(c, c.ret, SRS_ENB_SERVICE))

configure_srsue_service(m, ue_usim_imsi, ue_usim_k, ue_usim_opc) ==
    configure_service(m, get_srsue_command(ue_usim_imsi, ue_usim_k, ue_usim_opc),
                      SRS_UE_SERVICE)

ue_attached(m) ==
    Then(get_iface_ip_address(m, TUN_SRSUE), LAMBDA ip :
         IF Raised(ip) THEN ip ELSE [ip EXCEPT !.ret = Truthy(ip.ret)])

\* the message is the concatenation of the parts listed
active_status_msg(m) ==
    Then(service_active(m, SRS_ENB_SERVICE), LAMBDA enb :
         IF Raised(enb) THEN enb
         ELSE IF ~enb.ret THEN [enb EXCEPT !.ret = <<>>]
         ELSE Then(IF Truthy(mme_addr(enb))
                   THEN <<"srsenb started. ", "mme: " \o Format(mme_addr(enb)) \o ". ">>
                   ELSE <<"srsenb started. ">>, LAMBDA msg :
              Then(ue_attached(enb), LAMBDA att :
                   IF Raised(att) THEN att
                   ELSE IF ~att.ret THEN [att EXCEPT !.ret = msg]
                   ELSE Then(service_active(att, SRS_UE_SERVICE), LAMBDA ue :
                             IF Raised(ue) THEN ue
                             ELSE [ue EXCEPT !.ret = IF ue.ret
                                                     THEN msg \o <<"ue attached. ">>
                                                     ELSE msg]))))

set_status(m, kind, msg) ==
    IF Raised(m) THEN m
    ELSE [m EXCEPT !.status = [kind |-> kind, msg |-> msg], !.statusSet = TRUE]

\* self.unit.status = ActiveStatus(self._active_status_msg)
set_active_status(m) ==
    Then(active_status_msg(m), LAMBDA msg :
         IF Raised(msg) THEN msg ELSE set_status(msg, "Active", msg.ret))

event_fail(m, reason) == IF Raised(m) THEN m ELSE [m EXCEPT !.failMsg = Some(reason)]
set_results(m, res) == IF Raised(m) THEN m ELSE [m EXCEPT !.results = Some(res)]

-----------------------------------------------------------------------------
(* linux_service.py *)

\* Service.is_active: CalledProcessError is caught and answered False
Service_is_active(m, name) ==
    IF Raised(m) THEN m
    ELSE Then(shell(m, <<"systemctl", "is-active", name>>), LAMBDA r :
              IF r.exc = "CalledProcessError" THEN [r EXCEPT !.exc = NoExc, !.ret = FALSE]
              ELSE IF Raised(r) THEN r
              ELSE [r EXCEPT !.ret = (r.ret = "active\n")])

\* Template(...).render(command, user, description, exec_stop_post): the unit
\* definition is the template with its four fields filled in
Service_render(command, user, description, exec_stop_post) ==
    [command |-> command, user |-> user, description |-> description,
     exec_stop_post |-> exec_stop_post]

\* Service.create: render, write /etc/systemd/system/<name>.service, daemon-reload
Service_create(m, name, command, user, description, exec_stop_post) ==
    IF Raised(open_files(m)) THEN open_files(m)
    ELSE systemctl_daemon_reload(
             [m EXCEPT !.unitFile[name] =
                           Some(Service_render(command, user, description, exec_stop_post)),
                       !.trace = Append(@, <<"write", name>>)])

\* os.remove(path) of a unit file: FileNotFoundError when there is none
os_remove(m, name) ==
    IF Raised(m) THEN m
    ELSE IF m.unitFile[name] = None THEN Raise(m, "FileNotFoundError")
    ELSE [m EXCEPT !.unitFile[name] = None, !.trace = Append(@, <<"remove", name>>)]

\* mutant: delete without the except clause
Service_delete_strict(m, name) == os_remove(m, name)

\* Service.delete: os.remove, FileNotFoundError is caught and passed over
Service_delete(m, name) ==
    IF Raised(m) THEN m
    ELSE Then(os_remove(m, name), LAMBDA r :
              IF r.exc = "FileNotFoundError" THEN [r EXCEPT !.exc = NoExc] ELSE r)

-----------------------------------------------------------------------------
(* linux_interface.py *)

\* Interface._get_interface: ValueError is caught and answered None;
\* Interface.get_ip_address: interface[AF_INET][0]["addr"], None without interface
Interface_get_ip_address(m, name) ==
    IF Raised(m) THEN m
    ELSE IF ~m.net.ifs[name].exists THEN [m EXCEPT !.ret = None]
    ELSE IF m.net.ifs[name].inet = None THEN Raise(m, "KeyError")
    ELSE [m EXCEPT !.ret = m.net.ifs[name].inet]

-----------------------------------------------------------------------------
(* charm.py: event handlers *)

\* shutil.rmtree(path, ignore_errors=True) of the four working directories
rmtree_ignore_errors(m) == IF Raised(m) THEN m ELSE [m EXCEPT !.dirs = FALSE]

\* os.mkdir of the four working directories
os_mkdir(m) ==
    IF Raised(m) THEN m
    ELSE IF m.dirs THEN Raise(m, "FileExistsError")
    ELSE [m EXCEPT !.dirs = TRUE]

\* mutant: rmtree without ignore_errors
reset_environment_strict(m) ==
    IF Raised(m) THEN m
    ELSE IF ~m.dirs THEN Raise(m, "FileNotFoundError")
    ELSE Then(os_mkdir([m EXCEPT !.dirs = FALSE]), LAMBDA made :
              IF Raised(made) THEN made
              ELSE [made EXCEPT !.trace = Append(@, <<"reset_environment">>)])

reset_environment(m) ==
    Then(rmtree_ignore_errors(m), LAMBDA removed :
    Then(os_mkdir(removed), LAMBDA made :
         IF Raised(made) THEN made
         ELSE [made EXCEPT !.trace = Append(@, <<"reset_environment">>)]))

\* mutant: install that also starts srsenb
install_and_start(m) ==
    Then(set_status(m, "Maintenance", <<"Installing apt packages">>), LAMBDA s1 :
    Then(install_apt_packages(s1), LAMBDA a :
    Then(reset_environment(a), LAMBDA b :
    Then(git_clone(b), LAMBDA c :
    Then(shell(c, <<"cd", "/build", "&&", "cmake">>), LAMBDA d :
    Then(copy_files(d), LAMBDA e :
    Then(set_status(e, "Maintenance", <<"Configuring srs env service">>), LAMBDA s6 :
    Then(configure_srsenb_service(s6), LAMBDA f :
    Then(service_enable(f, SRS_ENB_SERVICE), LAMBDA g :
         service_start(g, SRS_ENB_SERVICE))))))))))

on_install(m) ==
    Then(set_status(m, "Maintenance", <<"Installing apt packages">>), LAMBDA s1 :
    Then(install_apt_packages(s1), LAMBDA a :
    Then(set_status(a, "Maintenance", <<"Preparing the environment">>), LAMBDA s2 :
    Then(reset_environment(s2), LAMBDA b :
    Then(set_status(b, "Maintenance", <<"Downloading srsLTE from Github">>), LAMBDA s3 :
    Then(git_clone(s3), LAMBDA c :
    Then(set_status(c, "Maintenance", <<"Building srsLTE">>), LAMBDA s4 :
    Then(shell(s4, <<"cd", "/build", "&&", "cmake">>), LAMBDA d :
    Then(set_status(d, "Maintenance", <<"Copying example configuration files">>), LAMBDA s5 :
    Then(copy_files(s5), LAMBDA e :
    Then(set_status(e, "Maintenance", <<"Configuring srs env service">>), LAMBDA s6 :
    Then(configure_srsenb_service(s6), LAMBDA f :
         service_enable(f, SRS_ENB_SERVICE)))))))))))))

on_start(m) ==
    Then(set_status(m, "Maintenance", <<"Starting srsenb">>), LAMBDA s1 :
    Then(service_start(s1, SRS_ENB_SERVICE), LAMBDA a :
         set_status(a, "Active", <<"srsenb started.">>)))

\* mutant: stop that also drops the stored core address
stop_and_forget(m) ==
    Then(reset_environment(m), LAMBDA r :
    Then(service_stop(r, SRS_ENB_SERVICE), LAMBDA a :
    Then(set_status(a, "Blocked", <<"Unit is down, service has stopped">>), LAMBDA b :
         IF Raised(b) THEN b ELSE [b EXCEPT !.databag = <<>>])))

on_stop(m) ==
    Then(reset_environment(m), LAMBDA r :
    Then(service_stop(r, SRS_ENB_SERVICE), LAMBDA a :
         set_status(a, "Blocked", <<"Unit is down, service has stopped">>)))

\* mutant: the restart without the activation check
restart_unchecked(m, why) ==
    Then(set_status(m, "Maintenance", <<why>>), LAMBDA s1 :
         service_restart(s1, SRS_ENB_SERVICE))

\* the branch on the answer of service_active: status = Maintenance(why);
\* service_restart(SRS_ENB_SERVICE)
restart_checked(act, why) ==
    IF Raised(act) THEN act
    ELSE IF act.ret
         THEN Then(set_status(act, "Maintenance", <<why>>), LAMBDA s1 :
                   service_restart(s1, SRS_ENB_SERVICE))
         ELSE act

\* if service_active(SRS_ENB_SERVICE): status = Maintenance(why); service_restart
restart_if_active(m, why) ==
    Then(service_active(m, SRS_ENB_SERVICE), LAMBDA act : restart_checked(act, why))

on_config_changed(m) ==
    Then(configure_srsenb_service(m), LAMBDA a :
    Then(restart_if_active(a, "Reloading srsenb"), LAMBDA b :
         set_active_status(b)))

on_update_status(m) == set_active_status(m)

\* LTECoreAvailableEvent(mme_ipv4_address)
LTECoreAvailableEvent(m, mme_ipv4_address) == [m EXCEPT !.arg = Some(mme_ipv4_address)]

\* event.fail(reason) of the lte-core-available event
LTECoreAvailableEvent_fail(m) == [m EXCEPT !.eventFailed = TRUE]

\* mutant: the unit rendered before the event's address is stored
lte_render_before_store(m, mme_ipv4_address) ==
    Then(LTECoreAvailableEvent(m, mme_ipv4_address), LAMBDA ev :
         IF ~leader THEN ev
         ELSE IF ~peerRel THEN LTECoreAvailableEvent_fail(ev)
         ELSE Then(configure_srsenb_service(ev), LAMBDA a :
              Then(IF Raised(a) THEN a
                   ELSE [a EXCEPT !.databag = json_dumps(mme_ipv4_address)], LAMBDA stored :
              Then(restart_if_active(stored, "Reloading srsenb."), LAMBDA b :
                   set_active_status(b)))))

\* mutant: the handler without its leader and peer-relation guards
lte_unguarded(m, mme_ipv4_address) ==
    Then(LTECoreAvailableEvent(m, mme_ipv4_address), LAMBDA ev :
    Then([ev EXCEPT !.databag = json_dumps(mme_ipv4_address)], LAMBDA stored :
    Then(configure_srsenb_service(stored), LAMBDA a :
    Then(restart_if_active(a, "Reloading srsenb."), LAMBDA b :
         set_active_status(b)))))

on_lte_core_available(m, mme_ipv4_address) ==
    Then(LTECoreAvailableEvent(m, mme_ipv4_address), LAMBDA ev :
         IF ~leader THEN ev
         ELSE IF ~peerRel THEN LTECoreAvailableEvent_fail(ev)
         ELSE Then([ev EXCEPT !.databag = json_dumps(mme_ipv4_address)], LAMBDA stored :
              Then(configure_srsenb_service(stored), LAMBDA a :
              Then(restart_if_active(a, "Reloading srsenb."), LAMBDA b :
                   set_active_status(b)))))

\* mutant: attach-ue without the check that the UE is already running
attach_without_ue_check(m, params) ==
    Then(service_active(m, SRS_ENB_SERVICE), LAMBDA enb :
         IF Raised(enb) THEN enb
         ELSE IF ~enb.ret THEN event_fail(enb, "Failed to attach. The EnodeB is not running.")
         ELSE Then(configure_srsue_service(enb, params.imsi, params.k, params.opc), LAMBDA cfg :
              Then(service_restart(cfg, SRS_UE_SERVICE), LAMBDA rst :
              Then(get_iface_ip_address(rst, TUN_SRSUE), LAMBDA ip :
                   IF Raised(ip) THEN ip
                   ELSE IF Truthy(ip.ret)
                        THEN set_results(ip, [message |-> "Attached successfully.",
                                              ue_ipv4 |-> ip.ret[1]])
                        ELSE event_fail(ip, "Failed to attach. Make sure you have provided the right configuration.")))))

\* _on_attach_ue_action past its two guards: write the unit, restart srsue,
\* read the address of tun_srsue once
attach_ue_body(m, params) ==
    Then(configure_srsue_service(m, params.imsi, params.k, params.opc), LAMBDA cfg :
    Then(service_restart(cfg, SRS_UE_SERVICE), LAMBDA rst :
    Then(get_iface_ip_address(rst, TUN_SRSUE), LAMBDA ip :
         IF Raised(ip) THEN ip
         ELSE IF Truthy(ip.ret)
              THEN Then(set_results(ip, [message |-> "Attached successfully.",
                                         ue_ipv4 |-> ip.ret[1]]), LAMBDA res :
                        set_active_status(res))
              ELSE event_fail(ip, "Failed to attach. Make sure you have provided the right configuration."))))

on_attach_ue_action(m, params) ==
    Then(service_active(m, SRS_ENB_SERVICE), LAMBDA enb :
         IF Raised(enb) THEN enb
         ELSE IF ~enb.ret
              THEN event_fail(enb, "Failed to attach. The EnodeB is not running.")
         ELSE Then(service_active(enb, SRS_UE_SERVICE), LAMBDA ue :
              IF Raised(ue) THEN ue
              ELSE IF ue.ret
                   THEN event_fail(ue, "Failed to attach. UE already running, please detach first.")
              ELSE attach_ue_body(ue, params)))

\* mutant: the unit file rewritten before srsue is stopped
detach_rewrite_first(m) ==
    Then(configure_srsue_service(m, None, None, None), LAMBDA a :
    Then(service_stop(a, SRS_UE_SERVICE), LAMBDA b :
    Then(set_active_status(b), LAMBDA c :
         set_results(c, [status |-> "ok", message |-> "Detached successfully"]))))

on_detach_ue_action(m) ==
    Then(service_stop(m, SRS_UE_SERVICE), LAMBDA a :
    Then(configure_srsue_service(a, None, None, None), LAMBDA b :
    Then(set_active_status(b), LAMBDA c :
         set_results(c, [status |-> "ok", message |-> "Detached successfully"]))))

on_remove_default_gw_action(m) ==
    Then(shell(m, <<"route", "del", "default">>), LAMBDA a :
         set_results(a, [status |-> "ok", message |-> "Default route removed!"]))

-----------------------------------------------------------------------------
(* The state machine *)

TunStates == {NoTun,
              [exists |-> TRUE, inet |-> None],
              [exists |-> TRUE, inet |-> Some(TunAddr)]}

\* the command of a handler that the environment makes fail (0: none)
FaultPoints == {0}

\* only attach-ue (re)starts srsue, so only it is offered a tun_srsue state
\* io: the file operation of _configure_service that fails ("ok": none);
\* dirs: the working directories exist when the handler starts
Envs == [tun : TunStates, failAt : FaultPoints, io : {"ok"}, dirs : {TRUE}]
QuietEnvs == [tun : {NoTun}, failAt : FaultPoints, io : {"ok"}, dirs : {TRUE}]
\* install and stop reset the working directories, which may or may not exist
DirEnvs == [tun : {NoTun}, failAt : FaultPoints, io : {"ok"}, dirs : BOOLEAN]

\* tunOffer: the state of tun_srsue the environment gives a (re)started UE
\* trace: the steps of the run (commands, file operations); statusSet: the run
\* assigned self.unit.status; arg: the address an lte-core-available event
\* carried; preDirs, dirs: the working directories existed before the run, exist
\* after it; afterFailure: the handler run before this one
\* ended in an exception; repeat: the run is the second of two consecutive
\* converges (same event, both wrote the unit file) with the same
\* configuration and stored core address; sameUnit: unit files as before
NoRun == [ev |-> "none", calls |-> <<>>, rcs |-> <<>>, exc |-> NoExc, failMsg |-> None,
          results |-> None, eventFailed |-> FALSE, preEnb |-> FALSE, preUe |-> FALSE,
          tunOffer |-> NoTun, trace |-> <<>>, statusSet |-> FALSE, repeat |-> FALSE,
          sameUnit |-> TRUE, afterFailure |-> FALSE, arg |-> None, preDirs |-> TRUE,
          dirs |-> TRUE]

\* no handler is between two commands: hooks and actions run one at a time
\* and each of Spec's actions is a whole handler
NoHandler == [ev |-> "none", m |-> <<>>]

Wrote(calls) == \E i \in DOMAIN calls : calls[i] = <<"systemctl", "daemon-reload">>
Converges == {"config-changed", "lte-core-available"}

\* the world a handler starts in
Machine(env) ==
    [status |-> status, unitFile |-> unitFile, loaded |-> loaded, proc |-> proc,
     enabled |-> enabled, databag |-> databag, net |-> net, config |-> config,
     env |-> env, calls |-> <<>>, rcs |-> <<>>, exc |-> NoExc, ret |-> FALSE,
     resp |-> [rc |-> 0, stdout |-> ""],
     failMsg |-> None, results |-> None, eventFailed |-> FALSE,
     trace |-> <<>>, statusSet |-> FALSE, arg |-> None, dirs |-> env.dirs]

\* the world a handler leaves, and the record of its run
Commit(ev, m) ==
    /\ status' = m.status
    /\ unitFile' = m.unitFile
    /\ loaded' = m.loaded
    /\ proc' = m.proc
    /\ enabled' = m.enabled
    /\ databag' = m.databag
    /\ net' = m.net
    /\ config' = m.config
    /\ last' = [ev |-> ev, calls |-> m.calls, rcs |-> m.rcs, exc |-> m.exc, failMsg |-> m.failMsg,
                results |-> m.results, eventFailed |-> m.eventFailed,
                preEnb |-> Active(SRS_ENB_SERVICE), preUe |-> Active(SRS_UE_SERVICE),
                tunOffer |-> IF ev = "attach-ue" THEN m.env.tun ELSE NoTun,
                trace |-> m.trace, statusSet |-> m.statusSet,
                repeat |-> /\ ev \in Converges
                           /\ last.ev = ev
                           /\ Wrote(last.calls)
                           /\ Wrote(m.calls)
                           /\ m.config = config
                           /\ m.databag = databag,
                sameUnit |-> m.unitFile = unitFile,
                afterFailure |-> last.exc # NoExc,
                arg |-> m.arg, preDirs |-> m.env.dirs, dirs |-> m.dirs]
    /\ inflight' = NoHandler
    /\ UNCHANGED <<peerRel, leader>>

\* The machine may carry an srsue unit written by an earlier revision of the
\* charm (a charm upgrade keeps the disk): the command detach-ue writes.
LeftOverUnits ==
    [n \in Services |-> IF n = SRS_UE_SERVICE
                        THEN Some(get_srsue_command(None, None, None)) ELSE None]

Init ==
    /\ status = [kind |-> "Maintenance", msg |-> <<>>]
    /\ unitFile \in {[n \in Services |-> None], LeftOverUnits}
    /\ loaded = unitFile
    /\ proc = [n \in Services |-> None]
    /\ enabled = {}
    /\ peerRel = FALSE
    /\ databag = <<>>
    /\ leader = FALSE
    /\ config \in Configs
    /\ \E inet \in {None, Some(EthAddr)} :
          net = [default |-> Some(ETH0),
                 ifs |-> [i \in {ETH0, TUN_SRSUE} |->
                             IF i = ETH0 THEN [exists |-> TRUE, inet |-> inet] ELSE NoTun]]
    /\ installed = FALSE
    /\ last = NoRun
    /\ inflight = NoHandler

Install ==
    /\ ~installed
    /\ \E env \in DirEnvs :
          LET m == on_install(Machine(env)) IN
          /\ Commit("install", m)
          /\ installed' = ~Raised(m)

Start ==
    /\ installed
    /\ \E env \in QuietEnvs : Commit("start", on_start(Machine(env)))
    /\ UNCHANGED installed

Stop ==
    /\ installed
    /\ \E env \in DirEnvs : Commit("stop", on_stop(Machine(env)))
    /\ UNCHANGED installed

ConfigChanged ==
    /\ installed
    /\ \E env \in QuietEnvs, c \in Configs :
          Commit("config-changed", on_config_changed([Machine(env) EXCEPT !.config = c]))
    /\ UNCHANGED installed

UpdateStatus ==
    /\ installed
    /\ \E env \in QuietEnvs : Commit("update-status", on_update_status(Machine(env)))
    /\ UNCHANGED installed

LteCoreAvailable ==
    /\ installed
    /\ \E env \in QuietEnvs, addr \in MmeAddrs :
          Commit("lte-core-available", on_lte_core_available(Machine(env), addr))
    /\ UNCHANGED installed

AttachUe ==
    /\ installed
    /\ \E env \in Envs, params \in Creds :
          Commit("attach-ue", on_attach_ue_action(Machine(env), params))
    /\ UNCHANGED installed

DetachUe ==
    /\ installed
    /\ \E env \in QuietEnvs : Commit("detach-ue", on_detach_ue_action(Machine(env)))
    /\ UNCHANGED installed

RemoveDefaultGw ==
    /\ installed
    /\ \E env \in QuietEnvs :
          Commit("remove-default-gw", on_remove_default_gw_action(Machine(env)))
    /\ UNCHANGED installed

(* The environment: Juju and the network *)

EnvRun == [NoRun EXCEPT !.ev = "env"]

PeerRelationCreated ==
    /\ ~peerRel
    /\ peerRel' = TRUE
    /\ last' = EnvRun
    /\ UNCHANGED <<status, unitFile, loaded, proc, enabled, databag, leader, config,
                   net, installed, inflight>>

LeaderElected ==
    /\ ~leader
    /\ leader' = TRUE
    /\ last' = EnvRun
    /\ UNCHANGED <<status, unitFile, loaded, proc, enabled, peerRel, databag, config,
                   net, installed, inflight>>

\* the running UE creates tun_srsue and gets its address from the core
TunChanged ==
    /\ Active(SRS_UE_SERVICE)
    /\ \E t \in TunStates :
          /\ t # net.ifs[TUN_SRSUE]
          /\ net' = [net EXCEPT !.ifs[TUN_SRSUE] = t]
    /\ last' = EnvRun
    /\ UNCHANGED <<status, unitFile, loaded, proc, enabled, peerRel, databag, leader,
                   config, installed, inflight>>

\* srsue started outside the charm (an administrator, a boot)
UeStarted ==
    /\ ~Active(SRS_UE_SERVICE)
    /\ UnitOf(Machine([tun |-> NoTun, failAt |-> 0, io |-> "ok", dirs |-> TRUE]),
              SRS_UE_SERVICE) # None
    /\ \E t \in TunStates :
          /\ proc' = [proc EXCEPT ![SRS_UE_SERVICE] =
                          UnitOf(Machine([tun |-> t, failAt |-> 0, io |-> "ok",
                                          dirs |-> TRUE]), SRS_UE_SERVICE)]
          /\ net' = [net EXCEPT !.ifs[TUN_SRSUE] = t]
    /\ last' = EnvRun
    /\ UNCHANGED <<status, unitFile, loaded, enabled, peerRel, databag, leader,
                   config, installed, inflight>>

\* the srsue process exits and its tun device goes with it; systemd runs the
\* unit's post-stop command
UeExited ==
    /\ Active(SRS_UE_SERVICE)
    /\ LET m == PostStop(Machine([tun |-> NoTun, failAt |-> 0, io |-> "ok", dirs |-> TRUE]),
                         SRS_UE_SERVICE)
       IN  /\ proc' = [m.proc EXCEPT ![SRS_UE_SERVICE] = None]
           /\ loaded' = m.loaded
    /\ net' = [net EXCEPT !.ifs[TUN_SRSUE] = NoTun]
    /\ last' = EnvRun
    /\ UNCHANGED <<status, unitFile, enabled, peerRel, databag, leader,
                   config, installed, inflight>>

DefaultRouteAdded ==
    /\ net.default = None
    /\ net' = [net EXCEPT !.default = Some(ETH0)]
    /\ last' = EnvRun
    /\ UNCHANGED <<status, unitFile, loaded, proc, enabled, peerRel, databag, leader,
                   config, installed, inflight>>

Next ==
    \/ Install
    \/ Start
    \/ Stop
    \/ ConfigChanged
    \/ UpdateStatus
    \/ LteCoreAvailable
    \/ AttachUe
    \/ DetachUe
    \/ RemoveDefaultGw
    \/ PeerRelationCreated
    \/ LeaderElected
    \/ TunChanged
    \/ UeStarted
    \/ UeExited
    \/ DefaultRouteAdded

Spec == Init /\ [][Next]_vars

-----------------------------------------------------------------------------
(* The state machine under command failures: every handler runs with one   *)
(* of its first MaxFault commands failing for an outside reason (or none). *)
(* The unit is deployed with an explicit bind-address on a machine whose   *)
(* default interface has an address, the configuration stays as deployed,  *)
(* the core                                                                *)
(* offers one address, attach-ue is given one set of credentials and no UE *)
(* is started outside the charm.                                           *)

MaxFault == 6
FaultEnvs ==
    [tun : {NoTun}, failAt : 0..MaxFault, io : {"ok"}, dirs : {TRUE}]
    \cup [tun : {NoTun}, failAt : {0}, io : {"template", "destination"}, dirs : {TRUE}]

InstallF ==
    /\ ~installed
    /\ \E env \in FaultEnvs :
          LET m == on_install(Machine(env)) IN
          /\ Commit("install", m)
          /\ installed' = ~Raised(m)

StartF ==
    /\ installed
    /\ \E env \in FaultEnvs : Commit("start", on_start(Machine(env)))
    /\ UNCHANGED installed

StopF ==
    /\ installed
    /\ \E env \in FaultEnvs : Commit("stop", on_stop(Machine(env)))
    /\ UNCHANGED installed

ConfigChangedF ==
    /\ installed
    /\ \E env \in FaultEnvs : Commit("config-changed", on_config_changed(Machine(env)))
    /\ UNCHANGED installed

UpdateStatusF ==
    /\ installed
    /\ \E env \in FaultEnvs : Commit("update-status", on_update_status(Machine(env)))
    /\ UNCHANGED installed

LteCoreAvailableF ==
    /\ installed
    /\ \E env \in FaultEnvs :
          Commit("lte-core-available", on_lte_core_available(Machine(env), "1.2.3.4"))
    /\ UNCHANGED installed

AttachUeF ==
    /\ installed
    /\ \E env \in FaultEnvs :
          Commit("attach-ue",
                 on_attach_ue_action(Machine(env),
                                     [imsi |-> Some("whatever-imsi"), k |-> Some("whatever-k"),
                                      opc |-> Some("whatever-opc")]))
    /\ UNCHANGED installed

DetachUeF ==
    /\ installed
    /\ \E env \in FaultEnvs : Commit("detach-ue", on_detach_ue_action(Machine(env)))
    /\ UNCHANGED installed

RemoveDefaultGwF ==
    /\ installed
    /\ \E env \in FaultEnvs :
          Commit("remove-default-gw", on_remove_default_gw_action(Machine(env)))
    /\ UNCHANGED installed

NextF ==
    \/ InstallF
    \/ StartF
    \/ StopF
    \/ ConfigChangedF
    \/ UpdateStatusF
    \/ LteCoreAvailableF
    \/ AttachUeF
    \/ DetachUeF
    \/ RemoveDefaultGwF
    \/ PeerRelationCreated
    \/ LeaderElected
    \/ DefaultRouteAdded

InitF ==
    /\ Init
    /\ config.bind_address = Some("10.0.0.8")
    /\ net.ifs[ETH0].inet = Some(EthAddr)

FaultSpec == InitF /\ [][NextF]_vars

-----------------------------------------------------------------------------
(* The state machine with the two converge handlers in two steps each: up  *)
(* to the answer of `systemctl is-active srsenb`, and from there to the    *)
(* end.  Hooks run one at a time, so no other handler starts while one is  *)
(* in flight; systemd and the srsenb process do not wait for the charm:    *)
(* srsenb can leave the active state between any two commands.  The unit   *)
(* is deployed as in FaultSpec and the configuration stays as deployed.    *)

\* what a handler has done to the world so far
Publish(m) ==
    /\ status' = m.status
    /\ unitFile' = m.unitFile
    /\ loaded' = m.loaded
    /\ proc' = m.proc
    /\ enabled' = m.enabled
    /\ databag' = m.databag
    /\ net' = m.net
    /\ config' = m.config

\* the handler in flight goes on in the world as it is now
Resume(m) ==
    [m EXCEPT !.status = status, !.unitFile = unitFile, !.loaded = loaded, !.proc = proc,
              !.enabled = enabled, !.databag = databag, !.net = net]

\* _on_lte_core_available up to the answer of service_active(SRS_ENB_SERVICE)
lte_core_available_check(m, mme_ipv4_address) ==
    Then(LTECoreAvailableEvent(m, mme_ipv4_address), LAMBDA ev :
         IF ~leader THEN ev
         ELSE IF ~peerRel THEN LTECoreAvailableEvent_fail(ev)
         ELSE Then([ev EXCEPT !.databag = json_dumps(mme_ipv4_address)], LAMBDA stored :
              Then(configure_srsenb_service(stored), LAMBDA a :
                   service_active(a, SRS_ENB_SERVICE))))

InstallR ==
    /\ ~installed
    /\ inflight = NoHandler
    /\ \E env \in DirEnvs :
          LET m == on_install(Machine(env)) IN
          /\ Commit("install", m)
          /\ installed' = ~Raised(m)

StartR ==
    /\ installed
    /\ inflight = NoHandler
    /\ \E env \in QuietEnvs : Commit("start", on_start(Machine(env)))
    /\ UNCHANGED installed

StopR ==
    /\ installed
    /\ inflight = NoHandler
    /\ \E env \in DirEnvs : Commit("stop", on_stop(Machine(env)))
    /\ UNCHANGED installed

\* the handler ends here when the check raises, and else is in flight
ConfigChangedCheck ==
    /\ installed
    /\ inflight = NoHandler
    /\ \E env \in QuietEnvs :
          LET m == service_active(configure_srsenb_service(Machine(env)), SRS_ENB_SERVICE) IN
          IF Raised(m)
          THEN Commit("config-changed", m)
          ELSE /\ Publish(m)
               /\ inflight' = [ev |-> "config-changed", m |-> m]
               /\ UNCHANGED <<last, peerRel, leader>>
    /\ UNCHANGED installed

ConfigChangedAct ==
    /\ inflight.ev = "config-changed"
    /\ Commit("config-changed",
              set_active_status(restart_checked(Resume(inflight.m), "Reloading srsenb")))
    /\ UNCHANGED installed

LteCoreAvailableCheck ==
    /\ installed
    /\ inflight = NoHandler
    /\ \E env \in QuietEnvs, addr \in MmeAddrs :
          LET m == lte_core_available_check(Machine(env), addr) IN
          IF Raised(m) \/ ~leader \/ ~peerRel
          THEN Commit("lte-core-available", m)
          ELSE /\ Publish(m)
               /\ inflight' = [ev |-> "lte-core-available", m |-> m]
               /\ UNCHANGED <<last, peerRel, leader>>
    /\ UNCHANGED installed

LteCoreAvailableAct ==
    /\ inflight.ev = "lte-core-available"
    /\ Commit("lte-core-available",
              set_active_status(restart_checked(Resume(inflight.m), "Reloading srsenb.")))
    /\ UNCHANGED installed

\* srsenb leaves the active state without the charm: its process exits, or an
\* administrator stops it
EnbWentInactive ==
    /\ Active(SRS_ENB_SERVICE)
    /\ proc' = [proc EXCEPT ![SRS_ENB_SERVICE] = None]
    /\ UNCHANGED <<status, unitFile, loaded, enabled, peerRel, databag, leader, config,
                   net, installed, last, inflight>>

NextR ==
    \/ InstallR
    \/ StartR
    \/ StopR
    \/ ConfigChangedCheck
    \/ ConfigChangedAct
    \/ LteCoreAvailableCheck
    \/ LteCoreAvailableAct
    \/ EnbWentInactive
    \/ PeerRelationCreated
    \/ LeaderElected

RaceSpec == InitF /\ [][NextR]_vars


-----------------------------------------------------------------------------
(* Vocabulary of the properties *)

Range(seq) == {seq[i] : i \in DOMAIN seq}
Count(seq, x) == Cardinality({i \in DOMAIN seq : seq[i] = x})
Env0 == [tun |-> NoTun, failAt |-> 0, io |-> "ok", dirs |-> TRUE]

IsActiveCall(name) == <<"systemctl", "is-active", name>>
StartCall(name) == <<"systemctl", "start", name>>
RestartCall(name) == <<"systemctl", "restart", name>>
StopCall(name) == <<"systemctl", "stop", name>>
DaemonReload == <<"systemctl", "daemon-reload">>

ENB_NOT_RUNNING == "Failed to attach. The EnodeB is not running."
UE_ALREADY_RUNNING == "Failed to attach. UE already running, please detach first."

\* the values of flag `name` in a command
FlagValues(cmd, name) == {i \in DOMAIN cmd : cmd[i][1] = name}

-----------------------------------------------------------------------------
(* C1: in the config-changed and lte-core-available handlers, srsenb is    *)
(* restarted exactly once when it is active at the time of the check, and  *)
(* neither started nor restarted when it is not active; a handler run that *)
(* begins with srsenb not active ends with srsenb not active.              *)
C1_RestartOnlyIfRunning ==
    last.ev \in {"config-changed", "lte-core-available"} =>
        /\ (last.preEnb /\ IsActiveCall(SRS_ENB_SERVICE) \in Range(last.calls))
               => Count(last.calls, RestartCall(SRS_ENB_SERVICE)) = 1
        /\ ~last.preEnb
               => /\ Count(last.calls, RestartCall(SRS_ENB_SERVICE)) = 0
                  /\ Count(last.calls, StartCall(SRS_ENB_SERVICE)) = 0
                  /\ ~Active(SRS_ENB_SERVICE)

C1_Witness ==
    /\ last.ev = "config-changed"
    /\ last.preEnb
    /\ Count(last.calls, RestartCall(SRS_ENB_SERVICE)) = 1
    /\ Active(SRS_ENB_SERVICE)

(* C2: the activation query (utils.service_active and Service.is_active)   *)
(* never raises and answers whether the service is active: false when      *)
(* `systemctl is-active` exits non-zero.                                   *)
C2_ActivationQueryNeverRaises ==
    \A name \in Services :
        /\ ~Raised(Service_is_active(Machine(Env0), name))
        /\ Service_is_active(Machine(Env0), name).ret = Active(name)
        /\ ~Raised(service_active(Machine(Env0), name))
        /\ service_active(Machine(Env0), name).ret = Active(name)

(* C3: attach-ue run while srsenb is not active fails with the reason      *)
(* "Failed to attach. The EnodeB is not running." and changes nothing: no  *)
(* unit file written, no daemon-reload, no restart, status unchanged.      *)
C3_AttachGuard ==
    [][(last'.ev = "attach-ue" /\ ~Active(SRS_ENB_SERVICE)) =>
          /\ last'.exc = NoExc
          /\ last'.failMsg = Some(ENB_NOT_RUNNING)
          /\ unitFile' = unitFile
          /\ status' = status
          /\ DaemonReload \notin Range(last'.calls)
          /\ RestartCall(SRS_UE_SERVICE) \notin Range(last'.calls)]_vars

(* C4: attach-ue run while srsenb and srsue are both active fails with     *)
(* "Failed to attach. UE already running, please detach first." and leaves *)
(* the running UE alone: unit file, systemd's unit, process and unit       *)
(* status are unchanged and no restart of srsue is issued.                 *)
C4_AttachWhileUeRunning ==
    [][(last'.ev = "attach-ue" /\ Active(SRS_ENB_SERVICE) /\ Active(SRS_UE_SERVICE)) =>
          /\ last'.exc = NoExc
          /\ last'.failMsg = Some(UE_ALREADY_RUNNING)
          /\ last'.results = None
          /\ unitFile' = unitFile
          /\ loaded' = loaded
          /\ proc' = proc
          /\ status' = status
          /\ RestartCall(SRS_UE_SERVICE) \notin Range(last'.calls)]_vars

C4_Witness ==
    /\ last.ev = "attach-ue"
    /\ last.preEnb
    /\ last.preUe
    /\ last.failMsg = Some(UE_ALREADY_RUNNING)
    /\ Active(SRS_UE_SERVICE)

(* C5: attach-ue run with srsenb active, srsue not active and a tun_srsue  *)
(* that gets no address ends without an unhandled error, in an action      *)
(* failure whose reason is neither of the two precondition reasons.        *)
C5_AttachTimeout ==
    (/\ last.ev = "attach-ue"
     /\ last.preEnb
     /\ ~last.preUe
     /\ last.tunOffer.inet = None) =>
        /\ last.exc = NoExc
        /\ last.failMsg # None
        /\ last.failMsg \notin {Some(ENB_NOT_RUNNING), Some(UE_ALREADY_RUNNING)}

(* C6: attach-ue run with srsenb active, srsue not active and a tun_srsue  *)
(* that reports address A after the restart sets a result with a success   *)
(* message and A, never fails, and sets the status Active with a message   *)
(* that includes "ue attached".                                            *)
C6_AttachSuccess ==
    (/\ last.ev = "attach-ue"
     /\ last.preEnb
     /\ ~last.preUe
     /\ last.tunOffer.inet # None) =>
        /\ last.exc = NoExc
        /\ last.failMsg = None
        /\ last.results = Some([message |-> "Attached successfully.",
                                ue_ipv4 |-> last.tunOffer.inet[1]])
        /\ status.kind = "Active"
        /\ "ue attached. " \in Range(status.msg)

(* C7: detach-ue completes without error and sets the result               *)
(* {status: ok, message: "Detached successfully"} in every state, also     *)
(* when the srsue unit was never created.                                  *)
C7_DetachAlwaysSucceeds ==
    last.ev = "detach-ue" =>
        /\ last.exc = NoExc
        /\ last.results = Some([status |-> "ok", message |-> "Detached successfully"])

(* C8: remove-default-gw leaves the unit status, both unit files, the      *)
(* stored core address and the activation of both services unchanged, and  *)
(* returns {status: ok, message: "Default route removed!"} in every state. *)
C8_RemoveDefaultGwFrame ==
    [][last'.ev = "remove-default-gw" =>
          /\ status' = status
          /\ unitFile' = unitFile
          /\ databag' = databag
          /\ proc' = proc
          /\ last'.exc = NoExc
          /\ last'.results = Some([status |-> "ok", message |-> "Default route removed!"])
          /\ last'.calls = << <<"route", "del", "default">> >>]_vars

(* C9: the srsenb command, as computed in any reachable state and as       *)
(* written to the srsenb unit file, has no --enb.mme_addr flag when the    *)
(* core address is absent (no peer relation or no stored value) and has    *)
(* --enb.mme_addr=<addr> exactly once when it is present.                  *)
MmeFlagAsStored(cmd) ==
    IF mme_addr(Machine(Env0)) = None
    THEN FlagValues(cmd, "--enb.mme_addr") = {}
    ELSE /\ Cardinality(FlagValues(cmd, "--enb.mme_addr")) = 1
         /\ <<"--enb.mme_addr", mme_addr(Machine(Env0))[1]>> \in Range(cmd)

C9_MmeFlagOmission ==
    /\ MmeFlagAsStored(get_srsenb_command(Machine(Env0)).ret)
    /\ unitFile[SRS_ENB_SERVICE] # None => MmeFlagAsStored(unitFile[SRS_ENB_SERVICE][1])

C9_Witness ==
    /\ last.ev = "lte-core-available"
    /\ unitFile[SRS_ENB_SERVICE] # None
    /\ \E a \in MmeAddrs :
          /\ mme_addr(Machine(Env0)) = Some(a)
          /\ <<"--enb.mme_addr", a>> \in Range(unitFile[SRS_ENB_SERVICE][1])

(* C10: every unit file written has a non-empty command whose              *)
(* --enb.gtp_bind_addr and --enb.s1c_bind_addr flags carry a resolved      *)
(* address, never an empty or absent one.                                  *)
C10_CommandInvariant ==
    \A name \in Services :
        unitFile[name] # None =>
            /\ unitFile[name][1] # <<>>
            /\ \A i \in DOMAIN unitFile[name][1] :
                  unitFile[name][1][i][1] \in {"--enb.gtp_bind_addr", "--enb.s1c_bind_addr"}
                      => /\ Len(unitFile[name][1][i]) = 2
                         /\ unitFile[name][1][i][2] \notin {"", "None"}

(* C11: while the core-network address is absent, a config-changed event   *)
(* does not attempt convergence of srsenb: no unit file is written, no     *)
(* daemon-reload is triggered and no restart is issued; a running srsenb   *)
(* keeps the process it had.                                               *)
C11_NotReadyGuard ==
    [][(last'.ev = "config-changed" /\ mme_addr(Machine(Env0)) = None) =>
          /\ <<"write", SRS_ENB_SERVICE>> \notin Range(last'.trace)
          /\ DaemonReload \notin Range(last'.calls)
          /\ RestartCall(SRS_ENB_SERVICE) \notin Range(last'.calls)
          /\ unitFile' = unitFile
          /\ proc' = proc]_vars

(* C12: srsenb is never running while the core-network address has never   *)
(* been supplied (the peer databag holds no address), whatever sequence of *)
(* install, start, config-changed, lte-core-available and action events    *)
(* has run.                                                                *)
C12_StartPrecondition ==
    Active(SRS_ENB_SERVICE) => mme_addr(Machine(Env0)) # None

(* C13: the second of two consecutive converge triggers with the same      *)
(* configuration and core address, run while srsenb is running, issues no  *)
(* restart of srsenb.                                                      *)
C13_IdempotentRestartCount ==
    (last.repeat /\ last.preEnb) =>
        Count(last.calls, RestartCall(SRS_ENB_SERVICE)) = 0

(* C14: converging twice with an identical spec leaves the unit file the   *)
(* first converge wrote: the second of two consecutive converges with the  *)
(* same configuration and core address leaves every unit file as it was,   *)
(* and Service.create applied twice with the same command, user,           *)
(* description and post-stop command writes what one application writes.   *)
PostStops == {None, Some("service srsenb restart")}

C14_IdempotentRender ==
    /\ last.repeat => last.sameUnit
    /\ \A name \in Services, post \in PostStops :
          LET cmd == get_srsenb_command(Machine(Env0)).ret
              once == Service_create(Machine(Env0), name, cmd, "root", "SRS service", post)
              twice == Service_create(once, name, cmd, "root", "SRS service", post)
          IN  /\ twice.unitFile = once.unitFile
              /\ twice.loaded = once.loaded
              /\ once.unitFile[name] =
                     Some(Service_render(cmd, "root", "SRS service", post))

C14_Witness ==
    /\ last.ev = "config-changed"
    /\ last.repeat
    /\ last.sameUnit
    /\ unitFile[SRS_ENB_SERVICE] = Some(get_srsenb_command(Machine(Env0)).ret)

(* C15: the srsenb command depends on nothing but the configuration, the   *)
(* stored core address and the network state: evaluated on a machine with  *)
(* the same inputs and no history (no unit files, no processes, initial    *)
(* status) it is the same command, and it is the command found in the unit *)
(* file a converge has just written; the srsue command depends on its      *)
(* parameters only.                                                        *)
Pristine(m) ==
    [m EXCEPT !.status = [kind |-> "Maintenance", msg |-> <<>>],
              !.unitFile = [n \in Services |-> None],
              !.loaded = [n \in Services |-> None],
              !.proc = [n \in Services |-> None],
              !.enabled = {}]

C15_Determinism ==
    /\ get_srsenb_command(Pristine(Machine(Env0))).ret
           = get_srsenb_command(Machine(Env0)).ret
    /\ (last.ev \in Converges /\ Wrote(last.calls))
           => unitFile[SRS_ENB_SERVICE] = Some(get_srsenb_command(Machine(Env0)).ret)
    /\ (last.ev = "detach-ue" /\ Wrote(last.calls))
           => unitFile[SRS_UE_SERVICE] = Some(get_srsue_command(None, None, None))

C15_Witness ==
    /\ last.ev = "config-changed"
    /\ Wrote(last.calls)
    /\ Active(SRS_ENB_SERVICE)
    /\ Pristine(Machine(Env0)) # Machine(Env0)
    /\ last.sameUnit = FALSE
    /\ unitFile[SRS_ENB_SERVICE] = Some(get_srsenb_command(Machine(Env0)).ret)

(* C16: with a core address present the srsenb command lists, in this      *)
(* order, the binary, --enb.mme_addr, --enb.gtp_bind_addr,                 *)
(* --enb.s1c_bind_addr, --enb.name, --enb.mcc, --enb.mnc, the three        *)
(* config-file flags and the two rf flags, and both bind flags carry the   *)
(* same address; so does the unit file a converge has just written.        *)
FlagOrder ==
    <<SRS_ENB_BINARY, "--enb.mme_addr", "--enb.gtp_bind_addr", "--enb.s1c_bind_addr",
      "--enb.name", "--enb.mcc", "--enb.mnc", "--enb_files.rr_config",
      "--enb_files.sib_config", "--enb_files.drb_config", "--rf.device_name",
      "--rf.device_args">>

InFlagOrder(cmd) ==
    /\ [i \in DOMAIN cmd |-> cmd[i][1]] = FlagOrder
    /\ cmd[3][2] = cmd[4][2]

C16_FixedFlagOrder ==
    mme_addr(Machine(Env0)) # None =>
        /\ InFlagOrder(get_srsenb_command(Machine(Env0)).ret)
        /\ (last.ev \in Converges /\ Wrote(last.calls))
               => InFlagOrder(unitFile[SRS_ENB_SERVICE][1])

C16_Witness ==
    /\ last.ev = "lte-core-available"
    /\ Wrote(last.calls)
    /\ mme_addr(Machine(Env0)) = Some("1.2.3.4")
    /\ config.bind_address = Some("10.0.0.8")
    /\ unitFile[SRS_ENB_SERVICE][1][2] = <<"--enb.mme_addr", "1.2.3.4">>
    /\ unitFile[SRS_ENB_SERVICE][1][3] = <<"--enb.gtp_bind_addr", "10.0.0.8">>
    /\ unitFile[SRS_ENB_SERVICE][1][4] = <<"--enb.s1c_bind_addr", "10.0.0.8">>

(* C17: in every state reached when a handler has completed, the unit      *)
(* status claims no fact that is false: it says srsenb is started only if  *)
(* srsenb is active, names a core address only if that address is the one  *)
(* stored, and says a UE is attached only if srsue is active and tun_srsue *)
(* has an address.                                                         *)
StatusIsTrue ==
    /\ (status.kind = "Active" /\ Range(status.msg) \cap {"srsenb started.", "srsenb started. "} # {})
           => Active(SRS_ENB_SERVICE)
    /\ \A a \in MmeAddrs :
           ("mme: " \o a \o ". ") \in Range(status.msg) => mme_addr(Machine(Env0)) = Some(a)
    /\ "ue attached. " \in Range(status.msg)
           => /\ Active(SRS_UE_SERVICE)
              /\ Truthy(net.ifs[TUN_SRSUE].inet)

WholeCommand(name, cmd) ==
    /\ Len(cmd) >= 2
    /\ cmd[1] = IF name = SRS_ENB_SERVICE THEN <<SRS_ENB_BINARY>> ELSE <<SRS_UE_BINARY>>
    /\ cmd[Len(cmd)] = IF name = SRS_ENB_SERVICE THEN <<"--rf.device_args", "args">>
                                                 ELSE <<"/config/ue.conf">>

C18_FailurePropagation ==
    /\ \A i \in DOMAIN last.rcs :
          last.rcs[i] # 0 => /\ i = Len(last.rcs)
                             /\ last.exc = "CalledProcessError"
    /\ \A name \in Services :
          unitFile[name] # None => WholeCommand(name, unitFile[name][1])
    /\ (last.ev = "config-changed" /\ last.exc \notin {"FileNotFoundError", "PermissionError"}) =>
          /\ Len(last.calls) >= 1
          /\ last.calls[1] = DaemonReload
          /\ unitFile[SRS_ENB_SERVICE] = Some(get_srsenb_command(Machine(Env0)).ret)

C18_Witness ==
    /\ last.ev = "config-changed"
    /\ last.afterFailure
    /\ last.calls = <<DaemonReload, IsActiveCall(SRS_ENB_SERVICE), RestartCall(SRS_ENB_SERVICE)>>
    /\ last.rcs = <<0, 0, 1>>
    /\ last.exc = "CalledProcessError"

(* C19: an install handler that fails (package install, clone or build     *)
(* exiting non-zero) leaves the unit in Blocked status.                    *)
C19_InstallFailureBlocks ==
    (last.ev = "install" /\ last.exc # NoExc) => status.kind = "Blocked"

(* C20: a completed install handler has run, in this order, the package    *)
(* install, the environment reset, the clone, the build, the configuration *)
(* copy, the unit-file write (with its daemon-reload) and `systemctl       *)
(* enable srsenb`; it has issued no start or restart, srsenb is enabled    *)
(* and not running, and the unit status is Maintenance.                    *)
C20_InstallSequence ==
    (last.ev = "install" /\ last.exc = NoExc) =>
        /\ last.trace = << <<"sudo", "apt", "-qq", "update">>,
                           <<"sudo", "apt", "-y", "install">>,
                           <<"reset_environment">>,
                           <<"git", "clone">>,
                           <<"cd", "/build", "&&", "cmake">>,
                           <<"copy_files">>,
                           <<"write", SRS_ENB_SERVICE>>,
                           DaemonReload,
                           <<"systemctl", "enable", SRS_ENB_SERVICE>> >>
        /\ \A name \in Services :
              /\ StartCall(name) \notin Range(last.calls)
              /\ RestartCall(name) \notin Range(last.calls)
        /\ unitFile[SRS_ENB_SERVICE] # None
        /\ SRS_ENB_SERVICE \in enabled
        /\ ~Active(SRS_ENB_SERVICE)
        /\ status.kind = "Maintenance"

C20_Witness ==
    /\ last.ev = "install"
    /\ last.exc = NoExc
    /\ installed
    /\ SRS_ENB_SERVICE \in enabled
    /\ ~Active(SRS_ENB_SERVICE)

(* C21: every run of the stop handler issues `systemctl stop srsenb`,      *)
(* leaves srsenb not running and the working directories in place, and     *)
(* ends with the status Blocked("Unit is down, service has stopped"),      *)
(* whether or not the working directories existed before.                  *)
C21_StopSequence ==
    last.ev = "stop" =>
        /\ last.exc = NoExc
        /\ StopCall(SRS_ENB_SERVICE) \in Range(last.calls)
        /\ ~Active(SRS_ENB_SERVICE)
        /\ last.dirs
        /\ status = [kind |-> "Blocked", msg |-> <<"Unit is down, service has stopped">>]

C21_Witness ==
    /\ last.ev = "stop"
    /\ last.preEnb
    /\ ~last.preDirs
    /\ ~Active(SRS_ENB_SERVICE)
    /\ status.kind = "Blocked"

(* C22: once a core-network address is stored it stays stored: no step     *)
(* other than an lte-core-available event changes it, no step clears it,   *)
(* and a later config-changed that writes the unit file writes that        *)
(* address into it.                                                        *)
C22_StoredAddressSurvives ==
    [][databag # <<>> =>
          /\ peerRel'
          /\ databag' # <<>>
          /\ last'.ev # "lte-core-available" => databag' = databag
          /\ (last'.ev = "config-changed" /\ Wrote(last'.calls))
                 => <<"--enb.mme_addr", json_loads(databag)[1]>>
                        \in Range(unitFile'[SRS_ENB_SERVICE][1])]_vars

C22_Witness ==
    /\ last.ev = "config-changed"
    /\ Wrote(last.calls)
    /\ last.afterFailure
    /\ mme_addr(Machine(Env0)) = Some("5.6.7.8")
    /\ <<"--enb.mme_addr", "5.6.7.8">> \in Range(unitFile[SRS_ENB_SERVICE][1])

(* C23: the bind address is the configured bind-address verbatim when one  *)
(* is set, also when the default interface cannot be looked up; otherwise  *)
(* it is the address of the interface of the default route, absent when    *)
(* there is no default route or the interface has no IPv4 address; the     *)
(* unit file a converge has just written carries it in both bind flags.    *)
C23_AddressResolution ==
    LET b == bind_address(Machine(Env0))
        unplugged == bind_address([Machine(Env0) EXCEPT !.net.ifs[ETH0] = NoTun])
    IN  /\ ~Raised(b)
        /\ Truthy(config.bind_address) =>
               /\ b.ret = config.bind_address
               /\ ~Raised(unplugged)
               /\ unplugged.ret = config.bind_address
        /\ ~Truthy(config.bind_address) =>
               b.ret = IF net.default = None THEN None ELSE net.ifs[ETH0].inet
        /\ (last.ev \in Converges /\ Wrote(last.calls)) =>
               /\ <<"--enb.gtp_bind_addr", Format(b.ret)>>
                      \in Range(unitFile[SRS_ENB_SERVICE][1])
               /\ <<"--enb.s1c_bind_addr", Format(b.ret)>>
                      \in Range(unitFile[SRS_ENB_SERVICE][1])

C23_Witness ==
    /\ last.ev = "config-changed"
    /\ Wrote(last.calls)
    /\ config.bind_address = Some("10.0.0.8")
    /\ net.default = Some(ETH0)
    /\ net.ifs[ETH0].inet = Some(EthAddr)
    /\ <<"--enb.gtp_bind_addr", "10.0.0.8">> \in Range(unitFile[SRS_ENB_SERVICE][1])

(* C24: looking up the address of an interface that does not exist answers *)
(* None without raising, in utils.get_iface_ip_address and in              *)
(* Interface.get_ip_address.                                               *)
C24_MissingInterfaceIsAbsent ==
    ~net.ifs[TUN_SRSUE].exists =>
        /\ ~Raised(Interface_get_ip_address(Machine(Env0), TUN_SRSUE))
        /\ Interface_get_ip_address(Machine(Env0), TUN_SRSUE).ret = None
        /\ ~Raised(get_iface_ip_address(Machine(Env0), TUN_SRSUE))
        /\ get_iface_ip_address(Machine(Env0), TUN_SRSUE).ret = None

(* C25: in every handler run, a restart of a service comes after the write *)
(* of that service's unit file and a daemon-reload that exited 0, in that  *)
(* order, and a restart that succeeds leaves the service running the       *)
(* command of the unit file written in that run.                           *)
C25_WriteBeforeRestart ==
    \A name \in Services :
        /\ \A i \in DOMAIN last.trace :
              last.trace[i] = RestartCall(name) =>
                  \E j \in 1..i, k \in 1..i :
                      /\ j < k
                      /\ k < i
                      /\ last.trace[j] = <<"write", name>>
                      /\ last.trace[k] = DaemonReload
        /\ \A r \in DOMAIN last.calls :
              last.calls[r] = RestartCall(name) =>
                  /\ \E c \in 1..r : /\ c < r
                                     /\ last.calls[c] = DaemonReload
                                     /\ last.rcs[c] = 0
                  /\ last.rcs[r] = 0 => /\ proc[name] = unitFile[name]
                                        /\ loaded[name] = unitFile[name]

C25_Witness ==
    /\ last.ev = "lte-core-available"
    /\ last.preEnb
    /\ ~last.sameUnit
    /\ last.calls[3] = RestartCall(SRS_ENB_SERVICE)
    /\ last.rcs[3] = 0
    /\ proc[SRS_ENB_SERVICE] = unitFile[SRS_ENB_SERVICE]
    /\ <<"--enb.mme_addr", "1.2.3.4">> \in Range(proc[SRS_ENB_SERVICE][1])

(* C26: writing a unit definition (SrsLteCharm._configure_service,         *)
(* Service.create) changes the unit file of the named service only, runs   *)
(* `systemctl daemon-reload` and nothing else, and leaves the activation   *)
(* and enablement of every service as they were; in a handler run every    *)
(* write is directly followed by its daemon-reload.                        *)
C26_ConvergeKeepsActivation ==
    /\ \A name \in Services :
          LET cmd == get_srsue_command(None, None, None)
              r == configure_service(Machine(Env0), cmd, name)
              c == Service_create(Machine(Env0), name, cmd, "root", "SRS service", None)
          IN  /\ ~Raised(r)
              /\ r.calls = <<DaemonReload>>
              /\ r.unitFile = [unitFile EXCEPT ![name] = Some(cmd)]
              /\ r.proc = proc
              /\ r.enabled = enabled
              /\ ~Raised(c)
              /\ c.calls = <<DaemonReload>>
              /\ \A other \in Services \ {name} : c.unitFile[other] = unitFile[other]
              /\ c.proc = proc
              /\ c.enabled = enabled
    /\ \A i \in DOMAIN last.trace :
          last.trace[i][1] = "write" =>
              /\ i < Len(last.trace)
              /\ last.trace[i + 1] = DaemonReload

C26_Witness ==
    /\ last.ev = "detach-ue"
    /\ last.preEnb
    /\ last.preUe
    /\ last.trace = <<StopCall(SRS_UE_SERVICE), <<"write", SRS_UE_SERVICE>>, DaemonReload,
                      IsActiveCall(SRS_ENB_SERVICE)>>
    /\ Active(SRS_ENB_SERVICE)
    /\ ~Active(SRS_UE_SERVICE)

(* C27: when the unit template cannot be read or the unit file cannot be   *)
(* opened for writing, the converge raises, the unit files keep their      *)
(* content, and the run issues no daemon-reload and no restart.            *)
IoErrors == {"FileNotFoundError", "PermissionError"}

C27_ConvergeFailureIsClean ==
    /\ last.exc \in IoErrors =>
          /\ last.sameUnit
          /\ ~Wrote(last.calls)
          /\ \A i \in DOMAIN last.trace : last.trace[i][1] # "write"
          /\ \A name \in Services : RestartCall(name) \notin Range(last.calls)
    /\ \A name \in Services, io \in {"template", "destination"} :
          LET cmd == get_srsue_command(None, None, None)
              broken == [Machine(Env0) EXCEPT !.env.io = io]
              r == configure_service(broken, cmd, name)
              c == Service_create(broken, name, cmd, "root", "SRS service", None)
          IN  /\ r.exc \in IoErrors
              /\ r.unitFile = unitFile
              /\ r.calls = <<>>
              /\ c.exc \in IoErrors
              /\ c.unitFile = unitFile
              /\ c.calls = <<>>

C27_Witness ==
    /\ last.ev = "config-changed"
    /\ last.exc = "PermissionError"
    /\ last.preEnb
    /\ last.calls = <<>>
    /\ unitFile[SRS_ENB_SERVICE] # None
    /\ proc[SRS_ENB_SERVICE] = unitFile[SRS_ENB_SERVICE]

(* C28: an lte-core-available run on the leader with the peer relation     *)
(* present stores the event's address, which is the address read back      *)
(* afterwards, writes an srsenb unit file that contains                    *)
(* --enb.mme_addr=<event address>, and restarts srsenb if and only if it   *)
(* was active.                                                             *)
C28_LteCoreStoresThenRenders ==
    (last.ev = "lte-core-available" /\ leader /\ peerRel) =>
        /\ last.arg # None
        /\ databag = json_dumps(last.arg[1])
        /\ mme_addr(Machine(Env0)) = last.arg
        /\ <<"write", SRS_ENB_SERVICE>> \in Range(last.trace)
        /\ Cardinality(FlagValues(unitFile[SRS_ENB_SERVICE][1], "--enb.mme_addr")) = 1
        /\ <<"--enb.mme_addr", last.arg[1]>> \in Range(unitFile[SRS_ENB_SERVICE][1])
        /\ last.preEnb <=> RestartCall(SRS_ENB_SERVICE) \in Range(last.calls)
        /\ Count(last.calls, RestartCall(SRS_ENB_SERVICE)) <= 1

C28_Witness ==
    /\ last.ev = "lte-core-available"
    /\ leader
    /\ peerRel
    /\ last.preEnb
    /\ last.arg = Some("5.6.7.8")
    /\ ~last.sameUnit
    /\ RestartCall(SRS_ENB_SERVICE) \in Range(last.calls)
    /\ <<"--enb.mme_addr", "5.6.7.8">> \in Range(proc[SRS_ENB_SERVICE][1])

(* C29: an lte-core-available event on a non-leader unit, or on the leader *)
(* before the peer relation exists, stores no address, writes no unit      *)
(* file, issues no command and leaves the unit status, the unit files and  *)
(* the processes unchanged; without the peer relation (on the leader) the  *)
(* event is reported as failed, on a non-leader it is not.                 *)
C29_LteCoreNotApplicable ==
    [][(last'.ev = "lte-core-available" /\ (~leader \/ ~peerRel)) =>
          /\ databag' = databag
          /\ unitFile' = unitFile
          /\ loaded' = loaded
          /\ proc' = proc
          /\ status' = status
          /\ last'.calls = <<>>
          /\ last'.trace = <<>>
          /\ last'.exc = NoExc
          /\ last'.eventFailed <=> leader]_vars

C29_Witness ==
    /\ last.ev = "lte-core-available"
    /\ leader
    /\ ~peerRel
    /\ last.eventFailed
    /\ last.calls = <<>>
    /\ ~last.statusSet
    /\ Active(SRS_ENB_SERVICE)

(* C30: a detach-ue run issues `systemctl stop srsue` before it rewrites   *)
(* the srsue unit file, and the rewritten command has none of --usim.imsi, *)
(* --usim.k, --usim.opc, whatever credentials the unit file held before.   *)
NoCredentials(cmd) ==
    \A i \in DOMAIN cmd : cmd[i][1] \notin {"--usim.imsi", "--usim.k", "--usim.opc"}

C30_DetachDropsCredentials ==
    /\ (last.ev = "detach-ue" /\ <<"write", SRS_UE_SERVICE>> \in Range(last.trace)) =>
          /\ last.trace[1] = StopCall(SRS_UE_SERVICE)
          /\ last.trace[2] = <<"write", SRS_UE_SERVICE>>
          /\ unitFile[SRS_UE_SERVICE] # None
          /\ NoCredentials(unitFile[SRS_UE_SERVICE][1])
    /\ \A params \in Creds :
          LET held == Some(get_srsue_command(params.imsi, params.k, params.opc))
              attached == [Machine(Env0) EXCEPT !.unitFile[SRS_UE_SERVICE] = held,
                                                !.loaded[SRS_UE_SERVICE] = held,
                                                !.proc[SRS_UE_SERVICE] = held]
              r == on_detach_ue_action(attached)
          IN  /\ Len(r.trace) >= 2
              /\ r.trace[1] = StopCall(SRS_UE_SERVICE)
              /\ r.trace[2] = <<"write", SRS_UE_SERVICE>>
              /\ NoCredentials(r.unitFile[SRS_UE_SERVICE][1])
              /\ ~ActiveIn(r, SRS_UE_SERVICE)

C30_Witness ==
    /\ last.ev = "detach-ue"
    /\ last.preUe
    /\ last.trace[1] = StopCall(SRS_UE_SERVICE)
    /\ last.trace[2] = <<"write", SRS_UE_SERVICE>>
    /\ ~Active(SRS_UE_SERVICE)
    /\ unitFile[SRS_UE_SERVICE] = Some(get_srsue_command(None, None, None))

(* C31: subscriber credentials are all-or-nothing: every srsue command     *)
(* rendered (the one in the unit file, and the one _configure_srsue_service *)
(* writes for any parameters attach-ue accepts) has either all three of     *)
(* --usim.imsi, --usim.k, --usim.opc, each with a non-empty supplied value, *)
(* or none of them.                                                         *)
CredentialFlags == {"--usim.imsi", "--usim.k", "--usim.opc"}

AllOrNothing(cmd) ==
    \/ NoCredentials(cmd)
    \/ \A f \in CredentialFlags :
          \E i \in DOMAIN cmd : /\ cmd[i][1] = f
                                /\ Len(cmd[i]) = 2
                                /\ cmd[i][2] \notin {"", "None"}

C31_CredentialsAllOrNothing ==
    /\ unitFile[SRS_UE_SERVICE] # None => AllOrNothing(unitFile[SRS_UE_SERVICE][1])
    /\ \A params \in Creds :
          LET r == configure_srsue_service(Machine(Env0), params.imsi, params.k, params.opc)
          IN  /\ ~Raised(r)
              /\ AllOrNothing(r.unitFile[SRS_UE_SERVICE][1])

(* C32: Service.delete removes the unit file of the named service when it  *)
(* exists and does nothing, without error, when it does not; a second       *)
(* delete leaves the state of the first; the unit files of other services,  *)
(* systemd's loaded units and the processes are untouched and no command is *)
(* run.                                                                     *)
C32_DeleteIdempotent ==
    \A name \in Services :
        LET m == Machine(Env0)
            once == Service_delete(m, name)
            twice == Service_delete(once, name)
        IN  /\ ~Raised(once)
            /\ once.unitFile = [unitFile EXCEPT ![name] = None]
            /\ unitFile[name] = None => once = m
            /\ ~Raised(twice)
            /\ twice = once
            /\ once.calls = <<>>
            /\ once.loaded = loaded
            /\ once.proc = proc

C32_Witness ==
    /\ unitFile[SRS_ENB_SERVICE] # None
    /\ unitFile[SRS_UE_SERVICE] # None
    /\ Active(SRS_ENB_SERVICE)
    /\ LET once == Service_delete(Machine(Env0), SRS_ENB_SERVICE)
       IN  /\ once.unitFile[SRS_ENB_SERVICE] = None
           /\ once.unitFile[SRS_UE_SERVICE] = unitFile[SRS_UE_SERVICE]
           /\ once.trace = << <<"remove", SRS_ENB_SERVICE>> >>
           /\ Service_delete(once, SRS_ENB_SERVICE) = once

(* C33: an attach-ue that has restarted srsue and fails because tun_srsue  *)
(* got no address does not leave srsue active, and an attach-ue that        *)
(* follows it (srsenb still active) is not rejected with "UE already        *)
(* running, please detach first".  The first conjunct is about the runs of  *)
(* the handler; the second applies the handler's steps past its guards      *)
(* (unit write, restart, address lookup) to every state with srsenb active  *)
(* and srsue not active.                                                    *)
FailedAttach(r) == Raised(r) \/ r.failMsg # None

\* the machine as the next handler finds it
NextRun(r) ==
    [r EXCEPT !.calls = <<>>, !.rcs = <<>>, !.exc = NoExc, !.failMsg = None,
              !.results = None, !.trace = <<>>, !.statusSet = FALSE]

NoAddress == {t \in TunStates : t.inet = None} \cup {[exists |-> TRUE, inet |-> Some("")]}

C34_NoCheckThenActRace ==
    [][(/\ inflight.ev \in Converges
        /\ inflight' = NoHandler
        /\ RestartCall(SRS_ENB_SERVICE) \in Range(last'.calls)) =>
           Active(SRS_ENB_SERVICE)]_vars

=============================================================================
